---- MODULE Spec2Model ----
(***************************************************************************)
(* Model of src/src/models.py (jiant): construction of the shared          *)
(* embedder and its classifier map (build_embeddings), construction of the *)
(* task modules (build_model, build_task_modules) and dispatch of a batch  *)
(* to the task-kind-specific forward routine (MultiTaskModel.forward).     *)
(***************************************************************************)
EXTENDS Integers, Sequences, FiniteSets, TLC

VARIABLES file, model, last_call, result

vars == <<file, model, last_call, result>>

(***************************************************************************)
(* Bounds.                                                                 *)
(***************************************************************************)
\* Longest task list handed to a build.
MaxTasks == 2

(***************************************************************************)
(* Python values.                                                          *)
(***************************************************************************)
\* Python's None, where a string is expected.
None == "<None>"

\* Every string the model sorts, in Python's string order (sorted()).
SortedNames ==
    <<"@pretrain@", "ccg", "copa", "edges-ner", "lm", "mnli", "mnli-diagnostic",
      "multirc", "none", "rte", "seqgen", "sst", "sts-b", "unknown", "winograd", "wmt">>

Range(s) == {s[i] : i \in 1..Len(s)}

\* sorted(set(xs)) for a sequence xs of strings.
Sorted(xs) == SelectSeq(SortedNames, LAMBDA n : n \in Range(xs))

\* max() of a non-empty set of integers.
Max(S) == CHOOSE m \in S : \A x \in S : x <= m

\* A dict is the sequence of its <<key, value>> items in insertion order.
DictKeys(d) == {d[i][1] : i \in 1..Len(d)}

DictValues(d) == {d[i][2] : i \in 1..Len(d)}

DictGet(d, k) == (CHOOSE i \in 1..Len(d) : d[i][1] = k)

\* d[k] = v: replaces the value of a present key in place, appends a new key.
DictSet(d, k, v) ==
    IF k \in DictKeys(d)
    THEN [i \in 1..Len(d) |-> IF d[i][1] = k THEN <<k, v>> ELSE d[i]]
    ELSE Append(d, <<k, v>>)

\* json.dumps of a dict of str -> int: the members in insertion order.
json_dumps(d) == d

\* json.load: the members are inserted one by one, a repeated key keeps its
\* first position and takes its last value.
RECURSIVE json_load_from(_, _)
json_load_from(text, d) ==
    IF text = <<>> THEN d
    ELSE json_load_from(Tail(text), DictSet(d, Head(text)[1], Head(text)[2]))

json_load(text) == json_load_from(text, <<>>)

\* The file <run_dir>/classifier_task_map.json.
NoFile == [exists |-> FALSE, text |-> <<>>]

(***************************************************************************)
(* build_embeddings                                                        *)
(***************************************************************************)
PRETRAIN == "@pretrain@"

ErrWordEmbs == "Exception: Not a valid type of word emb. Set to none for elmo."
ErrCove == "AssertionError: CoVe requires GloVe embeddings."
ErrNoMap == "AssertionError: Error: classifier_task_map.json should already exist."
ErrNoEmbs == "AssertionError: You turned off all the embeddings, ya goof!"

\* Word embeddings: d_word added to d_emb, or the exception of line 326.
WordEmbs(args) ==
    IF args.word_embs # "none"
    THEN IF args.word_embs \in {"glove", "fastText"} /\ args.pretrained_embs
         THEN [status |-> "ok", embeddings |-> TRUE, d_emb |-> args.d_pretrained]
         ELSE IF args.word_embs = "scratch"
              THEN [status |-> "ok", embeddings |-> TRUE, d_emb |-> args.d_word]
              ELSE [status |-> ErrWordEmbs, embeddings |-> FALSE, d_emb |-> 0]
    ELSE [status |-> "ok", embeddings |-> FALSE, d_emb |-> 0]

\* CoVe: asserts GloVe word embeddings of width 300 and adds 600.
Cove(args, w) ==
    IF args.cove
    THEN IF w.embeddings /\ args.word_embs = "glove" /\ w.d_emb = 300
         THEN [status |-> "ok", d_emb |-> w.d_emb + 600]
         ELSE [status |-> ErrCove, d_emb |-> w.d_emb]
    ELSE [status |-> "ok", d_emb |-> w.d_emb]

\* Character embeddings add d_char.
CharEmbs(args, d_emb) == IF args.char_embs THEN d_emb + args.d_char ELSE d_emb

\* ELMo adds 512 (character CNN only) or 1024 (full ELMo).
Elmo(args, d_emb) ==
    IF args.elmo
    THEN IF args.elmo_chars_only THEN d_emb + 512 ELSE d_emb + 1024
    ELSE d_emb

\* The loop of lines 410-415 with the offset it starts from: every
\* classifier not yet in the map gets max_number_classifiers + offset.
RECURSIVE AddClassifiersFrom(_, _, _, _)
AddClassifiersFrom(classifiers, loaded_classifiers, max_number_classifiers, offset) ==
    IF classifiers = <<>> THEN loaded_classifiers
    ELSE IF Head(classifiers) \notin DictKeys(loaded_classifiers)
         THEN AddClassifiersFrom(
                  Tail(classifiers),
                  DictSet(loaded_classifiers, Head(classifiers),
                          max_number_classifiers + offset),
                  max_number_classifiers, offset + 1)
         ELSE AddClassifiersFrom(Tail(classifiers), loaded_classifiers,
                                 max_number_classifiers, offset)

\* Mutations of the loop: the offset is never advanced; the loop starts
\* from offset 0; the membership test is dropped; the loaded map is dropped.
RECURSIVE AddClassifiersNoAdvance(_, _, _, _)
AddClassifiersNoAdvance(classifiers, loaded_classifiers, max_number_classifiers, offset) ==
    IF classifiers = <<>> THEN loaded_classifiers
    ELSE IF Head(classifiers) \notin DictKeys(loaded_classifiers)
         THEN AddClassifiersNoAdvance(
                  Tail(classifiers),
                  DictSet(loaded_classifiers, Head(classifiers),
                          max_number_classifiers + offset),
                  max_number_classifiers, offset)
         ELSE AddClassifiersNoAdvance(Tail(classifiers), loaded_classifiers,
                                      max_number_classifiers, offset)

AddClassifiersStuck(classifiers, loaded_classifiers) ==
    AddClassifiersNoAdvance(classifiers, loaded_classifiers,
                            Max(DictValues(loaded_classifiers)), 1)

AddClassifiersFromZero(classifiers, loaded_classifiers) ==
    AddClassifiersFrom(classifiers, loaded_classifiers,
                       Max(DictValues(loaded_classifiers)), 0)

RECURSIVE AddClassifiersAlways(_, _, _, _)
AddClassifiersAlways(classifiers, loaded_classifiers, max_number_classifiers, offset) ==
    IF classifiers = <<>> THEN loaded_classifiers
    ELSE AddClassifiersAlways(
             Tail(classifiers),
             DictSet(loaded_classifiers, Head(classifiers),
                     max_number_classifiers + offset),
             max_number_classifiers, offset + 1)

AddClassifiersReassign(classifiers, loaded_classifiers) ==
    AddClassifiersAlways(classifiers, loaded_classifiers,
                         Max(DictValues(loaded_classifiers)), 1)

AddClassifiersRestart(classifiers, loaded_classifiers) ==
    AddClassifiersFrom(classifiers, <<<<PRETRAIN, 0>>>>, 0, 1)

\* Lines 410-415: max_number_classifiers = max(loaded_classifiers.values()),
\* offset = 1, then the loop.
AddClassifiers(classifiers, loaded_classifiers) ==
    AddClassifiersFrom(classifiers, loaded_classifiers,
                       Max(DictValues(loaded_classifiers)), 1)

\* Lines 391-407: the map the build starts from, or the assertion of line 397.
MissingMapAllowedPretrainOnly(args) == args.do_pretrain

MissingMapAllowed(args) == args.do_pretrain \/ args.allow_missing_task_map

LoadClassifiers(args, f) ==
    IF f.exists
    THEN [status |-> "ok", loaded |-> json_load(f.text)]
    ELSE IF MissingMapAllowed(args)
         THEN [status |-> "ok", loaded |-> <<<<PRETRAIN, 0>>>>]
         ELSE [status |-> ErrNoMap, loaded |-> <<>>]

\* What a build_embeddings call leaves: its outcome, the file, and the map
\* and width it hands to the embedder.  `before` is the file the call found
\* and `start` the map it started from (loaded_classifiers after line 407).
EmbResult(status, f, before, start, loaded, num_reps, d_emb) ==
    [op |-> "build_embeddings", status |-> status, file |-> f, before |-> before,
     start |-> start, loaded_classifiers |-> loaded, num_reps |-> num_reps,
     d_emb |-> d_emb]

\* build_embeddings(args, vocab, tasks, pretrained_embs), lines 308-467.
\* tasks is the sequence of the tasks' _classifier_name.
build_embeddings(args, tasks, f) ==
    LET w == WordEmbs(args)
        c == Cove(args, w)
        d_chars == CharEmbs(args, c.d_emb)
    IN  IF w.status # "ok" THEN EmbResult(w.status, f, f, <<>>, <<>>, 0, 0)
        ELSE IF c.status # "ok" THEN EmbResult(c.status, f, f, <<>>, <<>>, 0, 0)
        ELSE IF args.sep_embs_for_skip
        THEN LET classifiers == Sorted(tasks)
                 l == LoadClassifiers(args, f)
             IN  IF l.status # "ok" THEN EmbResult(l.status, f, f, <<>>, <<>>, 0, 0)
                 ELSE LET loaded == AddClassifiers(classifiers, l.loaded)
                          written == [exists |-> TRUE, text |-> json_dumps(loaded)]
                          num_reps == 1 + Max(DictValues(loaded))
                          d_emb == Elmo(args, d_chars)
                      IN  IF d_emb = 0
                          THEN EmbResult(ErrNoEmbs, written, f, l.loaded, loaded, num_reps, 0)
                          ELSE EmbResult("ok", written, f, l.loaded, loaded, num_reps, d_emb)
        ELSE LET loaded == <<<<PRETRAIN, 0>>>>
                 d_emb == Elmo(args, d_chars)
             IN  IF d_emb = 0
                 THEN EmbResult(ErrNoEmbs, f, f, loaded, loaded, 1, 0)
                 ELSE EmbResult("ok", f, f, loaded, loaded, 1, d_emb)

(***************************************************************************)
(* Inputs of the builds.                                                   *)
(***************************************************************************)
\* The classifier names the tasks of the embedding builds carry.
ClassifierNames == {"mnli", "rte", "sst"}

RECURSIVE SeqsUpTo(_, _)
SeqsUpTo(S, n) ==
    IF n = 0 THEN {<<>>}
    ELSE LET shorter == SeqsUpTo(S, n - 1)
         IN  shorter \cup {Append(s, x) : s \in shorter, x \in S}

EmbTaskLists == SeqsUpTo(ClassifierNames, MaxTasks)

EmbArgs ==
    [word_embs : {"none", "scratch"}, pretrained_embs : {FALSE},
     d_pretrained : {300}, d_word : {300}, cove : {FALSE},
     char_embs : {FALSE}, d_char : {100},
     elmo : {FALSE}, elmo_chars_only : {FALSE},
     sep_embs_for_skip : BOOLEAN, do_pretrain : BOOLEAN,
     allow_missing_task_map : BOOLEAN]

NoModel == [built |-> FALSE]

NoCall == [op |-> "none"]

Init ==
    /\ file = NoFile
    /\ model = NoModel
    /\ last_call = NoCall
    /\ result = [op |-> "none", status |-> "ok"]

\* Whether a call repeats the previous call: the same operation on the same
\* inputs, right after that call returned normally.
Repeats(call) == last_call = call /\ result.status = "ok"

\* One call of build_embeddings on the run directory.
BuildEmbeddings ==
    \E args \in EmbArgs, tasks \in EmbTaskLists :
        LET call == [op |-> "build_embeddings", args |-> args, tasks |-> tasks]
        IN  \E r \in {build_embeddings(args, tasks, file)} :
                /\ file' = r.file
                /\ result' = [op |-> r.op, status |-> r.status, before |-> r.before,
                               start |-> r.start,
                               loaded_classifiers |-> r.loaded_classifiers,
                               num_reps |-> r.num_reps, d_emb |-> r.d_emb,
                               repeat |-> Repeats(call)]
                /\ last_call' = call
                /\ UNCHANGED model

NextEmb == BuildEmbeddings

SpecEmb == Init /\ [][NextEmb]_vars

(***************************************************************************)
(* The classifier map (build_embeddings).                                  *)
(***************************************************************************)
IsEmbBuild == result.op = "build_embeddings"

SepBuild == IsEmbBuild /\ last_call.args.sep_embs_for_skip

\* Whether the dict `small` is contained in the dict `big`, key by key.
SubMap(small, big) ==
    \A i \in 1..Len(small) : \E j \in 1..Len(big) : big[j] = small[i]

\* C1: the classifier map on disk assigns exactly the indices 0..K-1 to its
\* K entries: no index is skipped and no two names share an index.
C1_IndicesContiguous ==
    file.exists =>
        LET d == json_load(file.text)
        IN  /\ DictValues(d) = 0..(Len(d) - 1)
            /\ \A i, j \in 1..Len(d) : d[i][2] = d[j][2] => i = j

\* A successful build left a map of four classifiers on disk.
C1_Witness ==
    /\ SepBuild /\ result.status = "ok"
    /\ file.exists /\ Len(file.text) = 4

\* C2: a build keeps every entry of the map it found on disk, with its
\* index, and gives no index of that map to another classifier name.
C2_MapOnlyGrows ==
    (IsEmbBuild /\ result.before.exists) =>
        LET old == json_load(result.before.text)
            new == json_load(file.text)
        IN  /\ file.exists
            /\ SubMap(old, new)
            /\ \A i \in 1..Len(old), j \in 1..Len(new) :
                   old[i][2] = new[j][2] => old[i][1] = new[j][1]

\* A build found a map of two classifiers on disk and wrote one of three.
C2_Witness ==
    /\ SepBuild /\ result.before.exists
    /\ Len(result.before.text) = 2 /\ Len(file.text) = 3

\* Whether "@pretrain@" is a key of d with value 0 and the only such key.
PretrainAtZero(d) ==
    /\ \E i \in 1..Len(d) : d[i] = <<PRETRAIN, 0>>
    /\ \A i \in 1..Len(d) : d[i][2] = 0 => d[i][1] = PRETRAIN

\* C3: in the map on disk and in the map every build hands to the embedder,
\* "@pretrain@" has index 0 and no other classifier name has index 0.
C3_PretrainAtZero ==
    /\ file.exists => PretrainAtZero(json_load(file.text))
    /\ (IsEmbBuild /\ result.loaded_classifiers # <<>>)
           => PretrainAtZero(result.loaded_classifiers)

\* A build added classifiers to the map and handed it to the embedder.
C3_Witness ==
    /\ SepBuild /\ result.status = "ok"
    /\ Len(result.loaded_classifiers) >= 3
    /\ file.text = result.loaded_classifiers

\* The in-memory default map of a build without per-classifier mixtures.
C3_WitnessDefault ==
    /\ IsEmbBuild /\ ~last_call.args.sep_embs_for_skip
    /\ result.status = "ok"

\* C4: a build that repeats the previous successful build (same arguments,
\* same task list, the file left in place) succeeds, adds no entry and
\* writes back exactly the map it found.
C4_RebuildIdempotent ==
    (SepBuild /\ result.repeat) =>
        /\ result.status = "ok"
        /\ result.before.exists
        /\ file = result.before
        /\ result.loaded_classifiers = result.start

\* A build with two tasks was repeated on the map it had written.
C4_Witness ==
    /\ SepBuild /\ result.repeat
    /\ Cardinality(Range(last_call.tasks)) = 2
    /\ Len(file.text) >= 3

\* C5: with per-classifier mixtures, a build that finds no map file fails
\* with the missing-map error when neither do_pretrain nor
\* allow_missing_task_map is set, and otherwise starts from
\* {"@pretrain@": 0}; a build that finds the file never fails so.
C5_MissingMap ==
    (SepBuild /\ WordEmbs(last_call.args).status = "ok"
              /\ Cove(last_call.args, WordEmbs(last_call.args)).status = "ok") =>
        LET a == last_call.args
            absent == ~result.before.exists
        IN  /\ (absent /\ ~a.do_pretrain /\ ~a.allow_missing_task_map)
                   => result.status = ErrNoMap
            /\ (absent /\ (a.do_pretrain \/ a.allow_missing_task_map))
                   => (result.status # ErrNoMap /\ result.start = <<<<PRETRAIN, 0>>>>)
            /\ ~absent => result.status # ErrNoMap

\* A continuation run found no map file and failed.
C5_WitnessFails == SepBuild /\ result.status = ErrNoMap

\* A run with only the override flag set started a fresh map.
C5_Witness ==
    /\ SepBuild /\ ~result.before.exists
    /\ ~last_call.args.do_pretrain /\ last_call.args.allow_missing_task_map
    /\ result.status = "ok" /\ Len(file.text) >= 2

(***************************************************************************)
(* Tasks and their kinds.                                                  *)
(***************************************************************************)
\* The class of each registered task object, by task name.
TaskKind(name) ==
    CASE name = "sst" -> "SingleClassificationTask"
      [] name = "mnli" -> "PairClassificationTask"
      [] name = "mnli-diagnostic" -> "GLUEDiagnosticTask"
      [] name = "sts-b" -> "STSBTask"
      [] name = "ccg" -> "TaggingTask"
      [] name = "lm" -> "LanguageModelingTask"
      [] name = "copa" -> "MultipleChoiceTask"
      [] name = "edges-ner" -> "EdgeProbingTask"
      [] name = "winograd" -> "SpanClassificationTask"
      [] name = "wmt" -> "MTTask"
      [] name = "seqgen" -> "SequenceGenerationTask"
      [] name = "multirc" -> "MultiRCTask"
      [] name = "wic" -> "WiCTask"
      [] OTHER -> "Task"

TaskNames ==
    {"sst", "mnli", "mnli-diagnostic", "sts-b", "ccg", "lm", "copa", "edges-ner",
     "winograd", "wmt", "seqgen", "multirc", "unknown"}

\* The classes a class derives from (itself included).
Bases(kind) ==
    CASE kind = "GLUEDiagnosticTask" -> {kind, "PairClassificationTask", "Task"}
      [] kind = "STSBTask" -> {kind, "PairRegressionTask", "RegressionTask", "Task"}
      [] kind = "PairRegressionTask" -> {kind, "RegressionTask", "Task"}
      [] kind = "PairOrdinalRegressionTask" -> {kind, "RegressionTask", "Task"}
      [] kind = "WiCTask" -> {kind, "PairClassificationTask", "Task"}
      [] kind = "MTTask" -> {kind, "SequenceGenerationTask", "Task"}
      [] kind = "RedditSeq2SeqTask" -> {kind, "MTTask", "SequenceGenerationTask", "Task"}
      [] kind = "Wiki103Seq2SeqTask" -> {kind, "MTTask", "SequenceGenerationTask", "Task"}
      [] kind = "LanguageModelingParsingTask" -> {kind, "LanguageModelingTask", "Task"}
      [] OTHER -> {kind, "Task"}

\* isinstance(task, classes) for a task of class kind.
IsInstance(kind, classes) == Bases(kind) \cap classes # {}

(***************************************************************************)
(* build_sent_encoder                                                      *)
(***************************************************************************)
ErrOnlyRNNLM == "AssertionError: Only RNNLM supported!"
ErrLMFullElmo == "AssertionError: LM with full ELMo not supported"
ErrBowSkip == "AssertionError: Skip connection not currently supported with bow encoder."
ErrNoneSkip == "AssertionError: skip_embs must be set for {args.sent_enc} encoder"
ErrNoSentEnc == "AssertionError: No valid sentence encoder specified."
ErrDSentUnbound == "UnboundLocalError: local variable d_sent referenced before assignment"

\* The attribute a BoWSentEncoder lacks.
NoPhraseLayer == "<no _phrase_layer>"

Encoder(status, class, phrase_layer, d_sent) ==
    [status |-> status, class |-> class, phrase_layer |-> phrase_layer,
     d_sent |-> d_sent]

\* Lines 160-175: the bidirectional language-model encoder.  The mutation
\* drops the ELMo assertion of lines 162-163.
BiLMAnyElmo(args) ==
    IF args.sent_enc \notin {"rnn", "bilm"}
    THEN Encoder(ErrOnlyRNNLM, "", "", 0)
    ELSE Encoder("ok", "SentenceEncoder", "BiLMEncoder", 2 * args.d_hid)

BiLM(args) ==
    IF args.sent_enc \notin {"rnn", "bilm"}
    THEN Encoder(ErrOnlyRNNLM, "", "", 0)
    ELSE IF args.elmo /\ ~args.elmo_chars_only
    THEN Encoder(ErrLMFullElmo, "", "", 0)
    ELSE Encoder("ok", "SentenceEncoder", "BiLMEncoder", 2 * args.d_hid)

\* Lines 176-181: the bag-of-words encoder.  The mutation drops the
\* assertion of lines 178-180.
BoWAnySkip(args, d_emb) == Encoder("ok", "BoWSentEncoder", NoPhraseLayer, d_emb)

BoW(args, d_emb) ==
    IF args.skip_embs
    THEN Encoder(ErrBowSkip, "", "", 0)
    ELSE Encoder("ok", "BoWSentEncoder", NoPhraseLayer, d_emb)

\* Lines 208-223: no shared encoder, the word representations pass through.
\* The mutation gives the pass-through the width of its input.
NullLayerInputWidth(args, d_emb) ==
    IF ~args.skip_embs
    THEN Encoder(ErrNoneSkip, "", "", 0)
    ELSE Encoder("ok", "SentenceEncoder", "NullPhraseLayer", d_emb)

NullLayer(args, d_emb) ==
    IF ~args.skip_embs
    THEN Encoder(ErrNoneSkip, "", "", 0)
    ELSE Encoder("ok", "SentenceEncoder", "NullPhraseLayer", 0)

\* build_sent_encoder(args, vocab, d_emb, tasks, embedder, cove_layer):
\* the class of the sentence encoder, of its phrase layer, and d_sent.  The
\* transformer branch (lines 195-207) assigns no d_sent, so the return
\* statement of line 226 raises.
build_sent_encoder(args, d_emb, tasks) ==
    IF args.sent_enc = "onlstm"
    THEN Encoder("ok", "SentenceEncoder", "ONLSTMStack", args.d_word)
    ELSE IF args.sent_enc = "prpn"
    THEN Encoder("ok", "SentenceEncoder", "PRPN", args.d_word)
    ELSE IF (\E t \in tasks : IsInstance(TaskKind(t), {"LanguageModelingTask"}))
            \/ args.sent_enc = "bilm"
    THEN BiLM(args)
    ELSE IF args.sent_enc = "bow" THEN BoW(args, d_emb)
    ELSE IF args.sent_enc = "rnn"
    THEN Encoder("ok", "SentenceEncoder", "lstm", 2 * args.d_hid)
    ELSE IF args.sent_enc = "transformer"
    THEN Encoder(ErrDSentUnbound, "", "", 0)
    ELSE IF args.sent_enc = "none" THEN NullLayer(args, d_emb)
    ELSE Encoder(ErrNoSentEnc, "", "", 0)

\* build_model, line 273: the input width of the task-specific modules.
d_task_input(args, d_sent_output, d_emb) ==
    d_sent_output + (IF args.skip_embs THEN 1 ELSE 0) * d_emb

(***************************************************************************)
(* Task parameters and task modules.                                       *)
(***************************************************************************)
\* get_task_specific_params, lines 608-612: the alias target of a task.
\* setting is config.get_task_attr(args, task_name, "use_classifier").
UseClassifier(setting, task_name) ==
    IF setting \in {None, ""} THEN task_name ELSE setting

\* The name _get_classifier looks the module up under, lines 838-842.
ClassifierName(use_clf, task_name) ==
    IF use_clf \in {None, "", "none"} THEN task_name ELSE use_clf

\* Line 487: whether build_task_modules builds the task's own modules.  The
\* mutation builds them for every task.
BuildsOwnAlways(task_params, task_name) == TRUE

BuildsOwn(task_params, task_name) == ~(task_name # task_params[task_name])

ErrModuleNotFound == "ValueError: Module not found"

\* build_task_specific_modules: the attributes set on the model for a task.
\* The mutation drops the MultiRCTask branch of lines 570-572.
TaskModulesNoMultiRC(kind) ==
    IF IsInstance(kind, {"SingleClassificationTask"}) THEN {"mdl"}
    ELSE IF IsInstance(kind, {"PairClassificationTask", "PairRegressionTask",
                              "PairOrdinalRegressionTask"}) THEN {"mdl"}
    ELSE IF IsInstance(kind, {"LanguageModelingParsingTask"}) THEN {"hid2voc", "mdl"}
    ELSE IF IsInstance(kind, {"LanguageModelingTask"}) THEN {"hid2voc"}
    ELSE IF IsInstance(kind, {"SpanClassificationTask"}) THEN {"mdl"}
    ELSE IF IsInstance(kind, {"TaggingTask"}) THEN {"mdl"}
    ELSE IF IsInstance(kind, {"MultipleChoiceTask"}) THEN {"mdl"}
    ELSE IF IsInstance(kind, {"EdgeProbingTask"}) THEN {"mdl"}
    ELSE IF IsInstance(kind, {"Wiki103Seq2SeqTask"}) THEN {"decoder"}
    ELSE IF IsInstance(kind, {"MTTask"}) THEN {"decoder"}
    ELSE IF IsInstance(kind, {"SequenceGenerationTask"}) THEN {"decoder", "hid2voc"}
    ELSE {}

TaskModules(kind) ==
    IF IsInstance(kind, {"SingleClassificationTask"}) THEN {"mdl"}
    ELSE IF IsInstance(kind, {"PairClassificationTask", "PairRegressionTask",
                              "PairOrdinalRegressionTask"}) THEN {"mdl"}
    ELSE IF IsInstance(kind, {"LanguageModelingParsingTask"}) THEN {"hid2voc", "mdl"}
    ELSE IF IsInstance(kind, {"LanguageModelingTask"}) THEN {"hid2voc"}
    ELSE IF IsInstance(kind, {"SpanClassificationTask"}) THEN {"mdl"}
    ELSE IF IsInstance(kind, {"TaggingTask"}) THEN {"mdl"}
    ELSE IF IsInstance(kind, {"MultipleChoiceTask"}) THEN {"mdl"}
    ELSE IF IsInstance(kind, {"EdgeProbingTask"}) THEN {"mdl"}
    ELSE IF IsInstance(kind, {"Wiki103Seq2SeqTask"}) THEN {"decoder"}
    ELSE IF IsInstance(kind, {"MTTask"}) THEN {"decoder"}
    ELSE IF IsInstance(kind, {"SequenceGenerationTask"}) THEN {"decoder", "hid2voc"}
    ELSE IF IsInstance(kind, {"MultiRCTask"}) THEN {"mdl"}
    ELSE {}

\* build_task_modules(args, tasks, model, ...), lines 470-490: the resolved
\* parameters of every task, then the modules of the tasks that build their
\* own.  A module is identified by the name it is stored under.
build_task_modules(args, tasks) ==
    LET task_params == [t \in tasks |-> UseClassifier(args.use_classifier[t], t)]
        builders == {t \in tasks : BuildsOwn(task_params, t)}
    IN  IF \E t \in builders : TaskModules(TaskKind(t)) = {}
        THEN [status |-> ErrModuleNotFound]
        ELSE [status |-> "ok", task_params |-> task_params,
              mdl |-> {t \in builders : "mdl" \in TaskModules(TaskKind(t))},
              hid2voc |-> {t \in builders : "hid2voc" \in TaskModules(TaskKind(t))},
              decoder |-> {t \in builders : "decoder" \in TaskModules(TaskKind(t))}]

(***************************************************************************)
(* build_model                                                             *)
(***************************************************************************)
\* Lines 236-264: the embedder and its width.  The transformer embedders
\* (OpenAI, BERT) bring their own width and skip build_embeddings.
Embedder(args, tasks, f) ==
    IF args.openai_transformer \/ args.bert_model_name # ""
    THEN [status |-> "ok", file |-> f, d_emb |-> args.d_transformer]
    ELSE build_embeddings(args, tasks, f)

\* build_model(args, vocab, pretrained_embs, tasks), lines 229-305.
build_model(args, tasks, f) ==
    LET e == Embedder(args, SelectSeq(SortedNames, LAMBDA n : n \in tasks), f)
    IN  IF e.status # "ok"
        THEN [status |-> e.status, file |-> e.file, d_task_input |-> 0, model |-> NoModel]
        ELSE LET enc == build_sent_encoder(args, e.d_emb, tasks)
             IN  IF enc.status # "ok"
                 THEN [status |-> enc.status, file |-> e.file, d_task_input |-> 0,
                       model |-> NoModel]
                 ELSE LET mods == build_task_modules(args, tasks)
                      IN  IF mods.status # "ok"
                          THEN [status |-> mods.status, file |-> e.file,
                                d_task_input |-> d_task_input(args, enc.d_sent, e.d_emb),
                                model |-> NoModel]
                          ELSE [status |-> "ok", file |-> e.file,
                                d_task_input |-> d_task_input(args, enc.d_sent, e.d_emb),
                                model |->
                                  [built |-> TRUE,
                                   tasks |-> tasks,
                                   sent_encoder |-> enc.class,
                                   phrase_layer |-> enc.phrase_layer,
                                   utilization |-> args.track_batch_utilization,
                                   use_bert |-> (args.bert_model_name # ""),
                                   task_params |-> mods.task_params,
                                   mdl |-> mods.mdl,
                                   hid2voc |-> mods.hid2voc,
                                   decoder |-> mods.decoder]]

(***************************************************************************)
(* MultiTaskModel: the forward routines.                                   *)
(*                                                                         *)
(* A batch is the set of its field names.  A routine yields its outcome,   *)
(* the keys of the output record, the metric accumulators it updated (in   *)
(* order) and the name of the classifier module it looked up.              *)
(***************************************************************************)
Outcome(status, out, updates, module) ==
    [status |-> status, out |-> out, updates |-> updates, module |-> module]

Raise(error, updates) == Outcome(error, {}, updates, "")

\* An error raised after the classifier module was looked up.
RaiseWith(error, module) == Outcome(error, {}, <<>>, module)

KeyError(field) == "KeyError: " \o field

ErrNoAttr == "AttributeError: MultiTaskModel object has no such attribute"
ErrRegressionDims == "AssertionError: Invalid regression prediction dimensions!"
ErrNotLM == "AssertionError: Not using LM for language modeling task!"
ErrNoTargs == "AssertionError: Batch missing target words!"
ErrUnbound == "UnboundLocalError: local variable logits referenced before assignment"
ErrNoComponents == "ValueError: Task-specific components not found!"

\* _get_classifier(task), lines 835-842: the module stored under the alias
\* target's name, or the AttributeError of getattr.
_get_classifier(m, task) ==
    LET use_clf == ClassifierName(m.task_params[task], task)
    IN  IF use_clf \in m.mdl
        THEN [status |-> "ok", module |-> use_clf]
        ELSE [status |-> ErrNoAttr, module |-> ""]

\* Lines 866-875 and 951-960: the predictions of the classification family.
\* A regression prediction of rank 2 passes its assertion only if the
\* comparison logits[-1] == 1 is true of the batch.
Predictions(kind, out, updates, module, rank, x) ==
    IF IsInstance(kind, {"RegressionTask"})
    THEN IF rank > 1 /\ ~(rank = 2 /\ x.last_logit_one)
         THEN Outcome(ErrRegressionDims, {}, updates, module)
         ELSE Outcome("ok", out \cup {"preds"}, updates, module)
    ELSE Outcome("ok", out \cup {"preds"}, updates, module)

\* _single_sentence_forward, lines 844-876.
_single_sentence_forward(m, task, batch, predict, x) ==
    IF "input1" \notin batch THEN Raise(KeyError("input1"), <<>>)
    ELSE LET c == _get_classifier(m, task)
             labelled == "labels" \in batch
             out == {"logits", "n_exs"} \cup (IF labelled THEN {"loss"} ELSE {})
             updates == IF labelled THEN <<<<task, "update_metrics">>>> ELSE <<>>
         IN  IF c.status # "ok" THEN Raise(c.status, <<>>)
             ELSE IF predict
                  THEN Predictions(TaskKind(task), out, updates, c.module, 2, x)
                  ELSE Outcome("ok", out, updates, c.module)

\* The fields a pair of sentences is read from.
PairInputs(m) == IF m.use_bert THEN <<"inputs">> ELSE <<"input1", "input2">>

\* The first field of a sequence of fields that the batch lacks, or "".
FirstMissing(fields, batch) ==
    IF \E i \in 1..Len(fields) : fields[i] \notin batch
    THEN fields[CHOOSE i \in 1..Len(fields) :
                    /\ fields[i] \notin batch
                    /\ \A j \in 1..(i - 1) : fields[j] \in batch]
    ELSE ""

\* _nli_diagnostic_forward, lines 878-908.
_nli_diagnostic_forward(m, task, batch, predict, x) ==
    LET c == _get_classifier(m, task)
        missing == FirstMissing(PairInputs(m), batch)
    IN  IF c.status # "ok" THEN Raise(c.status, <<>>)
        ELSE IF missing # "" THEN RaiseWith(KeyError(missing), c.module)
        ELSE IF "labels" \notin batch THEN RaiseWith(KeyError("labels"), c.module)
        ELSE LET out == {"logits", "n_exs", "loss"}
                 updates == <<<<task, "update_diagnostic_metrics">>>>
             IN  IF predict
                 THEN Outcome("ok", out \cup {"preds"}, updates, c.module)
                 ELSE Outcome("ok", out, updates, c.module)

\* _pair_sentence_forward, lines 916-961.
_pair_sentence_forward(m, task, batch, predict, x) ==
    LET c == _get_classifier(m, task)
        kind == TaskKind(task)
        wic == IF IsInstance(kind, {"WiCTask"}) THEN <<"idx1", "idx2">> ELSE <<>>
        missing == FirstMissing(PairInputs(m) \o wic, batch)
        labelled == "labels" \in batch
        regression == IsInstance(kind, {"RegressionTask"})
        out == {"logits", "n_exs"} \cup (IF labelled THEN {"loss"} ELSE {})
        updates == IF labelled THEN <<<<task, "update_metrics">>>> ELSE <<>>
        \* line 942: with labels, regression logits lose their last dimension
        rank == IF labelled /\ regression THEN 1 ELSE 2
    IN  IF c.status # "ok" THEN Raise(c.status, <<>>)
        ELSE IF missing # "" THEN RaiseWith(KeyError(missing), c.module)
        ELSE IF predict THEN Predictions(kind, out, updates, c.module, rank, x)
        ELSE Outcome("ok", out, updates, c.module)

\* What the module of an edge-probing or span task returns: the output
\* record of the module's own forward.
ModuleForward(task, batch, predict) ==
    Outcome("ok",
            {"logits", "n_exs"} \cup (IF "labels" \in batch THEN {"loss"} ELSE {})
                                \cup (IF predict THEN {"preds"} ELSE {}),
            IF "labels" \in batch THEN <<<<task, "update_metrics">>>> ELSE <<>>,
            task)

\* Lines 816-820 (edge probing) and _span_forward, lines 910-914: the
\* module is looked up under the task's own name.
_span_forward(m, task, batch, predict, x) ==
    IF "input1" \notin batch THEN Raise(KeyError("input1"), <<>>)
    ELSE IF task \notin m.mdl THEN Raise(ErrNoAttr, <<>>)
    ELSE ModuleForward(task, batch, predict)

\* What Seq2SeqDecoder.forward returns for a batch with targets.
DecoderForward == {"logits", "loss"}

\* _seq_gen_forward, lines 963-980.
_seq_gen_forward(m, task, batch, predict, x) ==
    IF "inputs" \notin batch THEN Raise(KeyError("inputs"), <<>>)
    ELSE IF IsInstance(TaskKind(task), {"MTTask"})
    THEN IF task \notin m.decoder THEN Raise(ErrNoAttr, <<>>)
         ELSE IF "targs" \notin batch THEN Raise(KeyError("targs"), <<>>)
         ELSE IF "loss" \notin DecoderForward THEN Raise(KeyError("loss"), <<>>)
         ELSE Outcome("ok", {"n_exs"} \cup DecoderForward, <<<<task, "scorer1">>>>, "")
    ELSE Outcome("ok", {"n_exs"}, <<>>, "")

\* _tagger_forward, lines 982-1021.
_tagger_forward(m, task, batch, predict, x) ==
    IF "inputs" \notin batch THEN Raise(KeyError("inputs"), <<>>)
    ELSE IF m.sent_encoder # "BiLMEncoder"
    THEN LET c == _get_classifier(m, task)
         IN  IF c.status # "ok" THEN Raise(c.status, <<>>)
             ELSE IF "targs" \notin batch THEN RaiseWith(KeyError("targs"), c.module)
             ELSE Outcome("ok", {"n_exs", "logits", "loss"},
                          <<<<task, "scorer1">>>>, c.module)
    ELSE Raise(ErrUnbound, <<>>)

\* _lm_forward, lines 1023-1077.
_lm_forward(m, task, batch, predict, x) ==
    IF m.phrase_layer # "BiLMEncoder" THEN Raise(ErrNotLM, <<>>)
    ELSE IF "targs" \notin batch THEN Raise(ErrNoTargs, <<>>)
    ELSE IF "input" \notin batch THEN Raise(KeyError("input"), <<>>)
    ELSE IF task \notin m.hid2voc THEN Raise(ErrNoAttr, <<>>)
    ELSE IF "targs_b" \notin batch THEN Raise(KeyError("targs_b"), <<>>)
    ELSE Outcome("ok", {"n_exs", "logits", "loss"}, <<<<task, "scorer1">>>>, "")

\* _lm_only_lr_forward, lines 1113-1146.
_lm_only_lr_forward(m, task, batch, predict, x) ==
    IF "targs" \notin batch THEN Raise(ErrNoTargs, <<>>)
    ELSE IF "input" \notin batch THEN Raise(KeyError("input"), <<>>)
    ELSE IF task \notin m.hid2voc THEN Raise(ErrNoAttr, <<>>)
    ELSE Outcome("ok", {"n_exs", "logits", "loss"}, <<<<task, "scorer1">>>>, "")

\* The answer choices of a multiple-choice task (task.n_choices = 2).
Choices == <<"choice0", "choice1">>

\* _mc_forward, lines 1079-1111; the mutation drops lines 1108-1109.
_mc_forward_no_preds(m, task, batch, predict, x) ==
    LET c == _get_classifier(m, task)
        fields == IF m.use_bert THEN Choices ELSE <<"question">> \o Choices
        missing == FirstMissing(fields, batch)
        labelled == "label" \in batch
    IN  IF c.status # "ok" THEN Raise(c.status, <<>>)
        ELSE IF missing # "" THEN RaiseWith(KeyError(missing), c.module)
        ELSE Outcome("ok",
                     {"n_exs", "logits"} \cup (IF labelled THEN {"loss"} ELSE {}),
                     IF labelled THEN <<<<task, "update_metrics">>>> ELSE <<>>,
                     c.module)

_mc_forward(m, task, batch, predict, x) ==
    LET c == _get_classifier(m, task)
        fields == IF m.use_bert THEN Choices ELSE <<"question">> \o Choices
        missing == FirstMissing(fields, batch)
        labelled == "label" \in batch
    IN  IF c.status # "ok" THEN Raise(c.status, <<>>)
        ELSE IF missing # "" THEN RaiseWith(KeyError(missing), c.module)
        ELSE Outcome("ok",
                     {"n_exs", "logits"} \cup (IF labelled THEN {"loss"} ELSE {})
                                         \cup (IF predict THEN {"preds"} ELSE {}),
                     IF labelled THEN <<<<task, "update_metrics">>>> ELSE <<>>,
                     c.module)

\* _multiple_choice_reading_comprehension_forward, lines 1148-1182.
_multiple_choice_reading_comprehension_forward(m, task, batch, predict, x) ==
    LET c == _get_classifier(m, task)
        fields == IF m.use_bert THEN <<"para_quest_ans">>
                  ELSE <<"paragraph", "question", "answer">>
        labelled == "label" \in batch
        missing == FirstMissing(fields \o (IF labelled THEN <<"par_idx", "qst_idx">>
                                                     ELSE <<>>), batch)
    IN  IF c.status # "ok" THEN Raise(c.status, <<>>)
        ELSE IF missing # "" THEN RaiseWith(KeyError(missing), c.module)
        ELSE Outcome("ok",
                     {"n_exs", "logits"} \cup (IF labelled THEN {"loss"} ELSE {})
                                         \cup (IF predict THEN {"preds"} ELSE {}),
                     IF labelled THEN <<<<task, "update_metrics">>>> ELSE <<>>,
                     c.module)

(***************************************************************************)
(* MultiTaskModel.forward                                                  *)
(***************************************************************************)
EdgeProbingForward == "EdgeProbingTask module.forward"

\* The isinstance chain of lines 797-828: the routine a task is routed to,
\* "" where the chain ends in the ValueError of line 828.  One mutation
\* sends every language-modeling task to _lm_forward, the other tests for
\* the pair tasks before the diagnostic task.
RouteLMBidirectional(m, kind) ==
    IF IsInstance(kind, {"SingleClassificationTask"}) THEN "_single_sentence_forward"
    ELSE IF IsInstance(kind, {"GLUEDiagnosticTask"}) THEN "_nli_diagnostic_forward"
    ELSE IF IsInstance(kind, {"PairClassificationTask", "PairRegressionTask",
                              "PairOrdinalRegressionTask"})
    THEN "_pair_sentence_forward"
    ELSE IF IsInstance(kind, {"LanguageModelingTask"})
    THEN "_lm_forward"
    ELSE IF IsInstance(kind, {"TaggingTask"}) THEN "_tagger_forward"
    ELSE IF IsInstance(kind, {"MultipleChoiceTask"}) THEN "_mc_forward"
    ELSE IF IsInstance(kind, {"EdgeProbingTask"}) THEN EdgeProbingForward
    ELSE IF IsInstance(kind, {"SequenceGenerationTask"}) THEN "_seq_gen_forward"
    ELSE IF IsInstance(kind, {"MultiRCTask"})
    THEN "_multiple_choice_reading_comprehension_forward"
    ELSE IF IsInstance(kind, {"SpanClassificationTask"}) THEN "_span_forward"
    ELSE ""

RouteDiagnosticAsPair(m, kind) ==
    IF IsInstance(kind, {"SingleClassificationTask"}) THEN "_single_sentence_forward"
    ELSE IF IsInstance(kind, {"PairClassificationTask", "PairRegressionTask",
                              "PairOrdinalRegressionTask"})
    THEN "_pair_sentence_forward"
    ELSE IF IsInstance(kind, {"GLUEDiagnosticTask"}) THEN "_nli_diagnostic_forward"
    ELSE IF IsInstance(kind, {"LanguageModelingTask"})
    THEN IF m.phrase_layer \in {"ONLSTMStack", "PRPN"}
         THEN "_lm_only_lr_forward"
         ELSE "_lm_forward"
    ELSE IF IsInstance(kind, {"TaggingTask"}) THEN "_tagger_forward"
    ELSE IF IsInstance(kind, {"MultipleChoiceTask"}) THEN "_mc_forward"
    ELSE IF IsInstance(kind, {"EdgeProbingTask"}) THEN EdgeProbingForward
    ELSE IF IsInstance(kind, {"SequenceGenerationTask"}) THEN "_seq_gen_forward"
    ELSE IF IsInstance(kind, {"MultiRCTask"})
    THEN "_multiple_choice_reading_comprehension_forward"
    ELSE IF IsInstance(kind, {"SpanClassificationTask"}) THEN "_span_forward"
    ELSE ""

Route(m, kind) ==
    IF IsInstance(kind, {"SingleClassificationTask"}) THEN "_single_sentence_forward"
    ELSE IF IsInstance(kind, {"GLUEDiagnosticTask"}) THEN "_nli_diagnostic_forward"
    ELSE IF IsInstance(kind, {"PairClassificationTask", "PairRegressionTask",
                              "PairOrdinalRegressionTask"})
    THEN "_pair_sentence_forward"
    ELSE IF IsInstance(kind, {"LanguageModelingTask"})
    THEN IF m.phrase_layer \in {"ONLSTMStack", "PRPN"}
         THEN "_lm_only_lr_forward"
         ELSE "_lm_forward"
    ELSE IF IsInstance(kind, {"TaggingTask"}) THEN "_tagger_forward"
    ELSE IF IsInstance(kind, {"MultipleChoiceTask"}) THEN "_mc_forward"
    ELSE IF IsInstance(kind, {"EdgeProbingTask"}) THEN EdgeProbingForward
    ELSE IF IsInstance(kind, {"SequenceGenerationTask"}) THEN "_seq_gen_forward"
    ELSE IF IsInstance(kind, {"MultiRCTask"})
    THEN "_multiple_choice_reading_comprehension_forward"
    ELSE IF IsInstance(kind, {"SpanClassificationTask"}) THEN "_span_forward"
    ELSE ""

\* The call of the routine a task is routed to.
Call(routine, m, task, batch, predict, x) ==
    CASE routine = "_single_sentence_forward" ->
             _single_sentence_forward(m, task, batch, predict, x)
      [] routine = "_nli_diagnostic_forward" ->
             _nli_diagnostic_forward(m, task, batch, predict, x)
      [] routine = "_pair_sentence_forward" ->
             _pair_sentence_forward(m, task, batch, predict, x)
      [] routine = "_lm_only_lr_forward" ->
             _lm_only_lr_forward(m, task, batch, predict, x)
      [] routine = "_lm_forward" -> _lm_forward(m, task, batch, predict, x)
      [] routine = "_tagger_forward" -> _tagger_forward(m, task, batch, predict, x)
      [] routine = "_mc_forward" -> _mc_forward(m, task, batch, predict, x)
      [] routine = EdgeProbingForward -> _span_forward(m, task, batch, predict, x)
      [] routine = "_seq_gen_forward" -> _seq_gen_forward(m, task, batch, predict, x)
      [] routine = "_multiple_choice_reading_comprehension_forward" ->
             _multiple_choice_reading_comprehension_forward(m, task, batch, predict, x)
      [] routine = "_span_forward" -> _span_forward(m, task, batch, predict, x)
      [] OTHER -> Raise(ErrNoComponents, <<>>)

\* Lines 792-796: the batch-utilization accumulator of the model.  The
\* mutation updates it whether the model tracks utilization or not.
UtilizationUntracked(m, batch) ==
    IF "input1" \in batch \/ "input" \in batch
    THEN <<<<"model", "utilization">>>>
    ELSE <<>>

Utilization(m, batch) ==
    IF m.utilization /\ ("input1" \in batch \/ "input" \in batch)
    THEN <<<<"model", "utilization">>>>
    ELSE <<>>

\* forward(task, batch, predict), lines 780-829.
forward(m, task, batch, predict, x) ==
    LET kind == TaskKind(task)
        lm == IsInstance(kind, {"LanguageModelingTask"})
              /\ ~IsInstance(kind, {"SingleClassificationTask", "GLUEDiagnosticTask",
                                    "PairClassificationTask", "PairRegressionTask",
                                    "PairOrdinalRegressionTask"})
        routine == Route(m, kind)
        r == Call(routine, m, task, batch, predict, x)
    IN  IF lm /\ m.phrase_layer = NoPhraseLayer
        THEN [status |-> ErrNoAttr, out |-> {}, updates |-> Utilization(m, batch),
              module |-> "", routine |-> ""]
        ELSE [status |-> r.status, out |-> r.out,
              updates |-> Utilization(m, batch) \o r.updates,
              module |-> r.module, routine |-> routine]

(***************************************************************************)
(* Inputs of build_model and of forward.                                   *)
(***************************************************************************)
TaskLists == {ts \in SUBSET TaskNames : Cardinality(ts) <= MaxTasks}

\* The use_classifier settings of the configuration: no task, or one task
\* of the list, declares one.
AliasSettings(tasks) ==
    {f \in [tasks -> {None, "", "none", "mnli"} \cup tasks] :
        /\ \A t \in tasks : f[t] \in {None, "", "none", "mnli", t}
        /\ \A t, u \in tasks : (f[t] # None /\ f[u] # None) => t = u}

SentEncs == {"onlstm", "prpn", "bilm", "bow", "rnn", "transformer", "none"}

ModelArgs(tasks) ==
    [word_embs : {"scratch"}, pretrained_embs : {FALSE},
     d_pretrained : {300}, d_word : {300}, cove : {FALSE},
     char_embs : {FALSE}, d_char : {100},
     elmo : {FALSE}, elmo_chars_only : {FALSE},
     sep_embs_for_skip : {FALSE}, do_pretrain : {TRUE},
     allow_missing_task_map : {FALSE},
     openai_transformer : {FALSE}, bert_model_name : {"", "bert-base-uncased"},
     d_transformer : {768},
     sent_enc : SentEncs, skip_embs : BOOLEAN, d_hid : {512},
     track_batch_utilization : BOOLEAN,
     use_classifier : AliasSettings(tasks)]

\* The fields the forward routine of a task reads its inputs from.
InputFields(kind, use_bert) ==
    IF IsInstance(kind, {"SingleClassificationTask", "EdgeProbingTask",
                         "SpanClassificationTask"}) THEN {"input1"}
    ELSE IF IsInstance(kind, {"PairClassificationTask", "PairRegressionTask",
                              "PairOrdinalRegressionTask"})
    THEN IF use_bert THEN {"inputs"} ELSE {"input1", "input2"}
    ELSE IF IsInstance(kind, {"LanguageModelingTask"}) THEN {"input"}
    ELSE IF IsInstance(kind, {"TaggingTask", "SequenceGenerationTask"}) THEN {"inputs"}
    ELSE IF IsInstance(kind, {"MultipleChoiceTask"})
    THEN IF use_bert THEN Range(Choices) ELSE {"question"} \cup Range(Choices)
    ELSE IF IsInstance(kind, {"MultiRCTask"})
    THEN IF use_bert THEN {"para_quest_ans"} ELSE {"paragraph", "question", "answer"}
    ELSE {"input1"}

\* The fields the forward routine of a task reads the ground truth from.
LabelFields(kind) ==
    IF IsInstance(kind, {"LanguageModelingTask"}) THEN {"targs", "targs_b"}
    ELSE IF IsInstance(kind, {"TaggingTask", "SequenceGenerationTask"}) THEN {"targs"}
    ELSE IF IsInstance(kind, {"MultipleChoiceTask"}) THEN {"label"}
    ELSE IF IsInstance(kind, {"MultiRCTask"}) THEN {"label", "par_idx", "qst_idx"}
    ELSE {"labels"}

BatchFor(kind, use_bert, x) ==
    InputFields(kind, use_bert)
        \cup (IF x.labelled THEN LabelFields(kind) ELSE {})
        \cup (IF x.masked THEN {"mask"} ELSE {})

\* The calls of forward for a task: with and without labels, with and
\* without predictions; a keep-mask for tagging; for regression, whether
\* the comparison logits[-1] == 1 holds.
Calls(kind) ==
    [labelled : BOOLEAN, predict : BOOLEAN,
     masked : IF IsInstance(kind, {"TaggingTask"}) THEN BOOLEAN ELSE {FALSE},
     last_logit_one : IF IsInstance(kind, {"RegressionTask"}) THEN BOOLEAN ELSE {FALSE}]

(***************************************************************************)
(* The model: one build, then batches.                                     *)
(***************************************************************************)
\* build_model: a failed build is fatal, a process builds one model.
BuildModel ==
    /\ last_call = NoCall
    /\ \E tasks \in TaskLists :
         \E args \in ModelArgs(tasks) :
           \E r \in {build_model(args, tasks, file)} :
             /\ file' = r.file
             /\ model' = r.model
             /\ result' = [op |-> "build_model", status |-> r.status,
                           d_task_input |-> r.d_task_input]
             /\ last_call' = [op |-> "build_model"]

\* model.forward(task, batch, predict) for a task of the model.
Forward ==
    /\ model.built
    /\ \E task \in model.tasks :
         \E x \in Calls(TaskKind(task)) :
           LET batch == BatchFor(TaskKind(task), model.use_bert, x)
           IN  \E r \in {forward(model, task, batch, x.predict, x)} :
                 /\ result' = [op |-> "forward", status |-> r.status, out |-> r.out,
                               updates |-> r.updates, module |-> r.module,
                               routine |-> r.routine]
                 /\ last_call' = [op |-> "forward", task |-> task, batch |-> batch,
                                  predict |-> x.predict, labelled |-> x.labelled]
                 /\ UNCHANGED <<file, model>>

Next == BuildModel \/ Forward

Spec == Init /\ [][Next]_vars

(***************************************************************************)
(* Task modules and alias resolution.                                      *)
(***************************************************************************)
IsForward == result.op = "forward"

\* The routines that obtain their module from _get_classifier.
ClassifierRoutines ==
    {"_single_sentence_forward", "_nli_diagnostic_forward", "_pair_sentence_forward",
     "_tagger_forward", "_mc_forward", "_multiple_choice_reading_comprehension_forward"}

Built(m) == m.mdl \cup m.hid2voc \cup m.decoder

\* C6: a module is stored under name N only for a task named N whose alias
\* target is N; a task whose alias target differs from its name has no
\* module of its own, and its dispatch uses no module but the one stored
\* under the target's name, which _get_classifier returns when it is there.
C6_AliasedModule ==
    model.built =>
        /\ \A n \in Built(model) : n \in model.tasks /\ model.task_params[n] = n
        /\ \A t \in model.tasks : model.task_params[t] # t => t \notin Built(model)
        /\ IsForward =>
              LET t == last_call.task
                  target == model.task_params[t]
              IN  target # t =>
                     /\ result.module \in {"", target}
                     /\ (target \in model.mdl /\ result.routine \in ClassifierRoutines)
                           => result.module = target

\* "mnli" and "mnli-diagnostic" with use_classifier = "mnli": one module,
\* and a diagnostic batch went through the "mnli" module.
C6_Witness ==
    /\ model.built /\ IsForward
    /\ model.tasks = {"mnli", "mnli-diagnostic"}
    /\ model.task_params["mnli-diagnostic"] = "mnli"
    /\ model.mdl = {"mnli"}
    /\ last_call.task = "mnli-diagnostic"
    /\ result.status = "ok" /\ result.module = "mnli"

(***************************************************************************)
(* The output record of forward.                                           *)
(***************************************************************************)
Returned == IsForward /\ result.status = "ok"

\* C7: every forward call that returns normally returns a record with the
\* fields n_exs and logits.
C7_RecordHasLogits == Returned => {"n_exs", "logits"} \subseteq result.out

\* C8: for a task that built its own modules, a batch with labels yields a
\* record with a loss, and a batch without labels is processed without
\* error and yields a record without a loss.
C8_LossIffLabels ==
    (IsForward /\ result.routine # ""
               /\ model.task_params[last_call.task] = last_call.task) =>
        /\ result.status = "ok"
        /\ ("loss" \in result.out) <=> last_call.labelled

PredictingRoutines ==
    {"_single_sentence_forward", "_nli_diagnostic_forward", "_pair_sentence_forward",
     "_mc_forward", "_multiple_choice_reading_comprehension_forward"}

NonPredictingRoutines == {"_tagger_forward", "_lm_forward", "_lm_only_lr_forward"}

C9_WitnessPreds ==
    /\ Returned /\ result.routine = "_mc_forward"
    /\ last_call.predict /\ "preds" \in result.out

(***************************************************************************)
(* Routing.                                                                *)
(***************************************************************************)
\* The sentence encoders build_sent_encoder can build for a task list.
EncodersFor(tasks) ==
    {e \in {build_sent_encoder(a, 300, tasks) :
               a \in [sent_enc : SentEncs, skip_embs : BOOLEAN, elmo : {FALSE},
                      elmo_chars_only : {FALSE}, d_word : {300}, d_hid : {512}]} :
        e.status = "ok"}

\* C10: the routine a call is routed to is a function of the task's kind
\* alone: on every model that can be built for the same tasks, whatever
\* its contextualization layer, the task is routed to the same routine.
C10_KindAlone ==
    (IsForward /\ result.routine # "") =>
        \A e \in EncodersFor(model.tasks) :
            Route([model EXCEPT !.sent_encoder = e.class,
                                !.phrase_layer = e.phrase_layer],
                  TaskKind(last_call.task)) = result.routine

\* The routine of each class of task; a language-modeling task goes to the
\* left-to-right routine on an ON-LSTM or PRPN layer.
RoutineOf(kind, left_to_right) ==
    CASE kind = "SingleClassificationTask" -> "_single_sentence_forward"
      [] kind = "GLUEDiagnosticTask" -> "_nli_diagnostic_forward"
      [] kind \in {"PairClassificationTask", "STSBTask"} -> "_pair_sentence_forward"
      [] kind = "LanguageModelingTask" ->
             IF left_to_right THEN "_lm_only_lr_forward" ELSE "_lm_forward"
      [] kind = "TaggingTask" -> "_tagger_forward"
      [] kind = "MultipleChoiceTask" -> "_mc_forward"
      [] kind = "EdgeProbingTask" -> EdgeProbingForward
      [] kind \in {"SequenceGenerationTask", "MTTask"} -> "_seq_gen_forward"
      [] kind = "MultiRCTask" -> "_multiple_choice_reading_comprehension_forward"
      [] kind = "SpanClassificationTask" -> "_span_forward"
      [] OTHER -> ""

\* C10 (amended): every call is routed to the one routine of the task's
\* kind, whatever the batch and the model, except that a language-modeling
\* task is routed by the contextualization layer as well: to
\* _lm_only_lr_forward on an ONLSTMStack or PRPN layer, else to _lm_forward.
C10_KindAndLayer ==
    IsForward =>
        result.routine = RoutineOf(TaskKind(last_call.task),
                                   model.phrase_layer \in {"ONLSTMStack", "PRPN"})

\* A language-modeling batch was routed to the left-to-right routine.
C10_Witness ==
    /\ Returned /\ TaskKind(last_call.task) = "LanguageModelingTask"
    /\ model.phrase_layer = "ONLSTMStack"
    /\ result.routine = "_lm_only_lr_forward"

(***************************************************************************)
(* build_sent_encoder as a function of its arguments.                      *)
(***************************************************************************)
\* The values of args.sent_enc: the seven the code knows and one it does not.
EncSettings == SentEncs \cup {"cnn"}

EncArgs ==
    [sent_enc : EncSettings, skip_embs : BOOLEAN, elmo : BOOLEAN,
     elmo_chars_only : BOOLEAN, d_word : {300}, d_hid : {512}]

\* Widths of the embedder: word embeddings, ELMo.
EmbWidths == {300, 1024}

EncTaskLists == {ts \in SUBSET {"sst", "mnli", "ccg", "lm"} : Cardinality(ts) <= MaxTasks}

\* build_sent_encoder(args, vocab, d_emb, tasks, ...) and, as build_model
\* does with what it returns, the input width of the task modules.
BuildSentEncoder ==
    \E args \in EncArgs, d_emb \in EmbWidths, tasks \in EncTaskLists :
      \E e \in {build_sent_encoder(args, d_emb, tasks)} :
        /\ result' = [op |-> "build_sent_encoder", status |-> e.status,
                      class |-> e.class, phrase_layer |-> e.phrase_layer,
                      d_sent |-> e.d_sent,
                      d_task_input |-> IF e.status = "ok"
                                       THEN d_task_input(args, e.d_sent, d_emb)
                                       ELSE 0]
        /\ last_call' = [op |-> "build_sent_encoder", args |-> args,
                         d_emb |-> d_emb, tasks |-> tasks]
        /\ UNCHANGED <<file, model>>

NextEnc == BuildSentEncoder

SpecEnc == Init /\ [][NextEnc]_vars

IsEncBuild == result.op = "build_sent_encoder"

HasLM(tasks) == \E t \in tasks : IsInstance(TaskKind(t), {"LanguageModelingTask"})

\* C11: for a task list without a language-modeling task, sent_enc = "bow"
\* fails when skip_embs is set, and otherwise succeeds with d_sent = d_emb.
C11_BowSkip ==
    (IsEncBuild /\ last_call.args.sent_enc = "bow" /\ ~HasLM(last_call.tasks)) =>
        IF last_call.args.skip_embs
        THEN result.status = ErrBowSkip
        ELSE result.status = "ok" /\ result.d_sent = last_call.d_emb

\* A bag-of-words encoder was built over embeddings of width 1024.
C11_Witness ==
    /\ IsEncBuild /\ last_call.args.sent_enc = "bow" /\ ~HasLM(last_call.tasks)
    /\ ~last_call.args.skip_embs /\ last_call.d_emb = 1024
    /\ result.status = "ok" /\ result.d_sent = 1024

\* The bag-of-words build failed on skip_embs.
C11_WitnessFails ==
    /\ IsEncBuild /\ last_call.args.sent_enc = "bow" /\ ~HasLM(last_call.tasks)
    /\ last_call.args.skip_embs /\ result.status = ErrBowSkip

IsNoneBuild == IsEncBuild /\ last_call.args.sent_enc = "none"

\* C12: sent_enc = "none" fails whenever skip_embs is false, and with
\* skip_embs true succeeds with output width 0, so that the input width of
\* the task modules equals d_emb.
C12_NoneSkip ==
    IsNoneBuild =>
        IF last_call.args.skip_embs
        THEN /\ result.status = "ok"
             /\ result.d_sent = 0
             /\ result.d_task_input = last_call.d_emb
        ELSE result.status # "ok"

\* C12 (amended): for a task list without a language-modeling task,
\* sent_enc = "none" fails on its skip_embs assertion when skip_embs is
\* false, and with skip_embs true succeeds with output width 0 and
\* task-module input width d_emb; with a language-modeling task in the list
\* the build fails whatever skip_embs is, as only rnn and bilm are supported.
C12_NoneSkipNoLM ==
    IsNoneBuild =>
        IF HasLM(last_call.tasks)
        THEN result.status = ErrOnlyRNNLM
        ELSE IF last_call.args.skip_embs
        THEN /\ result.status = "ok"
             /\ result.d_sent = 0
             /\ result.d_task_input = last_call.d_emb
        ELSE result.status = ErrNoneSkip

\* The pass-through encoder was built over embeddings of width 1024.
C12_Witness ==
    /\ IsNoneBuild /\ ~HasLM(last_call.tasks) /\ last_call.args.skip_embs
    /\ last_call.d_emb = 1024
    /\ result.status = "ok" /\ result.d_sent = 0 /\ result.d_task_input = 1024

\* With a language-modeling task the build failed although skip_embs is set.
C12_WitnessLM ==
    /\ IsNoneBuild /\ HasLM(last_call.tasks) /\ last_call.args.skip_embs
    /\ result.status = ErrOnlyRNNLM

\* A configuration that breaks none of the rules of the strategies: only
\* rnn and bilm with a language-modeling task (ON-LSTM and PRPN apart), no
\* full ELMo with the language-model encoder, no skip connection with bow,
\* a skip connection with none.
LegalEnc(args, tasks) ==
    IF args.sent_enc \in {"onlstm", "prpn"} THEN TRUE
    ELSE IF HasLM(tasks) \/ args.sent_enc = "bilm"
    THEN args.sent_enc \in {"rnn", "bilm"} /\ (args.elmo => args.elmo_chars_only)
    ELSE /\ args.sent_enc = "bow" => ~args.skip_embs
         /\ args.sent_enc = "none" => args.skip_embs

\* C13: for each of the seven strategies onlstm, prpn, bilm, bow, rnn,
\* transformer, none, under an otherwise legal configuration,
\* build_sent_encoder returns a sentence encoder and an output width; any
\* other value of sent_enc makes the build fail.
C13_SevenStrategies ==
    IsEncBuild =>
        IF last_call.args.sent_enc \in SentEncs
        THEN LegalEnc(last_call.args, last_call.tasks) =>
                 result.status = "ok" /\ result.class # ""
        ELSE result.status # "ok"

\* The calls that ask for a language model: a language-modeling task in the
\* list, or sent_enc = "bilm".
AsksLM == IsEncBuild /\ (HasLM(last_call.tasks) \/ last_call.args.sent_enc = "bilm")

FullElmo(args) == args.elmo /\ ~args.elmo_chars_only

\* C14: whenever the task list holds a language-modeling task or sent_enc
\* is "bilm", the build fails if sent_enc is neither rnn nor bilm, fails if
\* full ELMo is requested, and succeeds otherwise (ELMo only char-only).
C14_LMOnlyBiLM ==
    AsksLM =>
        IF last_call.args.sent_enc \notin {"rnn", "bilm"} \/ FullElmo(last_call.args)
        THEN result.status # "ok"
        ELSE result.status = "ok"

\* C14 (amended): the same, for every sent_enc but onlstm and prpn: these
\* two are built first and succeed with their own layer, whatever the task
\* list and the ELMo settings.  Otherwise a sent_enc that is neither rnn nor
\* bilm fails as unsupported, full ELMo fails, and the rest builds the
\* bidirectional language-model encoder of width 2 * d_hid.
C14_LMOnlyBiLMUnlessOrdered ==
    AsksLM =>
        IF last_call.args.sent_enc \in {"onlstm", "prpn"}
        THEN result.status = "ok" /\ result.phrase_layer \in {"ONLSTMStack", "PRPN"}
        ELSE IF last_call.args.sent_enc \notin {"rnn", "bilm"}
        THEN result.status = ErrOnlyRNNLM
        ELSE IF FullElmo(last_call.args)
        THEN result.status = ErrLMFullElmo
        ELSE /\ result.status = "ok"
             /\ result.phrase_layer = "BiLMEncoder"
             /\ result.d_sent = 2 * last_call.args.d_hid

\* A language-model encoder was built with character-only ELMo.
C14_Witness ==
    /\ AsksLM /\ HasLM(last_call.tasks) /\ last_call.args.sent_enc = "rnn"
    /\ last_call.args.elmo /\ last_call.args.elmo_chars_only
    /\ result.status = "ok" /\ result.phrase_layer = "BiLMEncoder"

\* An ON-LSTM encoder was built for a list with a language-modeling task.
C14_WitnessOrdered ==
    /\ AsksLM /\ HasLM(last_call.tasks) /\ last_call.args.sent_enc = "onlstm"
    /\ result.status = "ok" /\ result.phrase_layer = "ONLSTMStack"

(***************************************************************************)
(* Task parameters and the modules of the pair tasks.                      *)
(***************************************************************************)
\* The attributes a configuration can set per task.
TaskAttrs == {"pair_attn", "d_hid_attn", "d_proj", "classifier_dropout", "use_classifier"}

\* config.get_task_attr(args, task_name, attr_name): the task's own value
\* where the configuration sets one, else the global value.  A per-task
\* setting is a set: empty where the task sets nothing.
get_task_attr(args, task_name, attr_name) ==
    LET own == args.task_attrs[task_name][attr_name]
    IN  IF own # {} THEN CHOOSE v \in own : TRUE ELSE args[attr_name]

\* get_task_specific_params(args, task_name), lines 577-614.  The mutation
\* reads the attention parameters per task whatever shared_pair_attn is.
get_task_specific_params_per_task(args, task_name) ==
    [d_proj |-> get_task_attr(args, task_name, "d_proj"),
     shared_pair_attn |-> args.shared_pair_attn,
     attn |-> get_task_attr(args, task_name, "pair_attn"),
     d_hid_attn |-> get_task_attr(args, task_name, "d_hid_attn"),
     dropout |-> get_task_attr(args, task_name, "classifier_dropout"),
     use_classifier |->
         UseClassifier(get_task_attr(args, task_name, "use_classifier"), task_name)]

get_task_specific_params(args, task_name) ==
    [d_proj |-> get_task_attr(args, task_name, "d_proj"),
     shared_pair_attn |-> args.shared_pair_attn,
     attn |-> IF args.shared_pair_attn
              THEN args.pair_attn
              ELSE get_task_attr(args, task_name, "pair_attn"),
     d_hid_attn |-> IF args.shared_pair_attn
                    THEN args.d_hid_attn
                    ELSE get_task_attr(args, task_name, "d_hid_attn"),
     dropout |-> IF args.shared_pair_attn
                 THEN args.classifier_dropout
                 ELSE get_task_attr(args, task_name, "classifier_dropout"),
     use_classifier |->
         UseClassifier(get_task_attr(args, task_name, "use_classifier"), task_name)]

\* build_single_sentence_module, lines 622-642: the module of a
\* single-sentence task, by the widths of its pooler and its classifier.
build_single_sentence_module(task, d_inp, use_bert, params) ==
    LET d_out == IF use_bert THEN d_inp ELSE params.d_proj
    IN  [task |-> task, class |-> "SingleClassifier", pooled |-> d_out,
         d_classifier |-> d_out, pair_attn |-> 0]

\* build_pair_sentence_module, lines 664-674: the width of a pooled sentence.
PooledWidth(params, use_bert, d_inp) ==
    IF params.attn /\ ~use_bert
    THEN params.d_hid_attn * 2
    ELSE IF use_bert THEN d_inp ELSE params.d_proj

\* Lines 676-686: the attention module of a pair task.  An attention module
\* is the number of the build_pair_attn call that made it, 0 stands for
\* None; m.pair_attn = 0 says the model has no such attribute.  The
\* mutation builds an attention module for every sharing task.
PairAttnUnshared(m, params) ==
    IF params.shared_pair_attn /\ params.attn /\ ~m.use_bert
    THEN [model |-> [m EXCEPT !.pair_attn = m.created + 1,
                              !.created = m.created + 1],
          pair_attn |-> m.created + 1]
    ELSE IF params.attn /\ ~m.use_bert
    THEN [model |-> [m EXCEPT !.created = m.created + 1],
          pair_attn |-> m.created + 1]
    ELSE [model |-> m, pair_attn |-> 0]

PairAttn(m, params) ==
    IF params.shared_pair_attn /\ params.attn /\ ~m.use_bert
    THEN IF m.pair_attn = 0
         THEN [model |-> [m EXCEPT !.pair_attn = m.created + 1,
                                   !.created = m.created + 1],
               pair_attn |-> m.created + 1]
         ELSE [model |-> m, pair_attn |-> m.pair_attn]
    ELSE IF params.attn /\ ~m.use_bert
    THEN [model |-> [m EXCEPT !.created = m.created + 1],
          pair_attn |-> m.created + 1]
    ELSE [model |-> m, pair_attn |-> 0]

\* Lines 688-700: the input width of the classifier.  The mutation adds one
\* pooled width for the word-in-context task.
ClassifierInputPlusPooled(kind, use_bert, d_out, d_inp) ==
    IF use_bert
    THEN IF IsInstance(kind, {"WiCTask"}) THEN d_out * 3 ELSE d_out
    ELSE IF IsInstance(kind, {"WiCTask"}) THEN 4 * d_out + d_out ELSE 4 * d_out

ClassifierInput(kind, use_bert, d_out, d_inp) ==
    IF use_bert
    THEN IF IsInstance(kind, {"WiCTask"}) THEN d_out * 3 ELSE d_out
    ELSE 4 * (IF IsInstance(kind, {"WiCTask"}) THEN d_out + d_inp ELSE d_out)

\* build_pair_sentence_module(task, d_inp, model, params), lines 645-701:
\* the model, with the shared attention it may have gained, and the module.
build_pair_sentence_module(task, d_inp, m, params) ==
    LET d_out == PooledWidth(params, m.use_bert, d_inp)
        a == PairAttn(m, params)
    IN  [model |-> a.model,
         module |->
           [task |-> task,
            class |-> IF m.use_bert THEN "SingleClassifier" ELSE "PairClassifier",
            pooled |-> d_out,
            d_classifier |->
                ClassifierInput(TaskKind(task), m.use_bert, d_out, d_inp),
            pair_attn |-> IF m.use_bert THEN 0 ELSE a.pair_attn]]

\* build_task_specific_modules for the single-sentence and pair tasks,
\* lines 497-505: the model with the module appended to those it has.
build_task_specific_modules(task, m, d_sent) ==
    LET params == m.task_params[task]
    IN  IF IsInstance(TaskKind(task), {"SingleClassificationTask"})
        THEN [m EXCEPT !.modules =
                 Append(@, build_single_sentence_module(task, d_sent, m.use_bert, params))]
        ELSE LET b == build_pair_sentence_module(task, d_sent, m, params)
             IN  [b.model EXCEPT !.modules = Append(@, b.module)]

\* The second loop of build_task_modules, lines 484-490, from the i-th task.
RECURSIVE ConstructModules(_, _, _, _)
ConstructModules(tasks, i, m, d_sent) ==
    IF i > Len(tasks) THEN m
    ELSE IF tasks[i] # m.task_params[tasks[i]].use_classifier
    THEN ConstructModules(tasks, i + 1, m, d_sent)
    ELSE ConstructModules(tasks, i + 1,
                          build_task_specific_modules(tasks[i], m, d_sent), d_sent)

\* build_task_modules(args, tasks, model, d_sent, ...), lines 470-490, on a
\* new model: the parameters of every task, then the modules, in the order
\* the set of tasks is iterated in.
build_task_modules_in_order(args, tasks, d_sent) ==
    ConstructModules(tasks, 1,
                     [use_bert |-> args.bert_model_name # "",
                      pair_attn |-> 0, created |-> 0,
                      task_params |-> [t \in Range(tasks) |->
                                          get_task_specific_params(args, t)],
                      modules |-> <<>>],
                     d_sent)

\* Single-sentence and pair tasks, in any order of iteration.
ModuleTaskNames == {"sst", "mnli", "mnli-diagnostic", "sts-b", "wic"}

ModuleTaskLists ==
    {ts \in SeqsUpTo(ModuleTaskNames, MaxTasks) :
        \A i, j \in 1..Len(ts) : ts[i] = ts[j] => i = j}

\* What a configuration sets for one task: attention or not, the hidden
\* width of the attention, and, for the diagnostic task, the classifier.
TaskSettings(t) ==
    [pair_attn : {{}, {TRUE}, {FALSE}}, d_hid_attn : {{}, {256}},
     d_proj : {{}}, classifier_dropout : {{}},
     use_classifier : IF t = "mnli-diagnostic" THEN {{}, {"mnli"}} ELSE {{}}]

ModuleArgs(tasks) ==
    {a \in [shared_pair_attn : BOOLEAN, pair_attn : BOOLEAN, d_hid_attn : {512},
            d_proj : {512}, classifier_dropout : {20}, use_classifier : {None},
            bert_model_name : {"", "bert-base-uncased"},
            task_attrs : [Range(tasks) -> UNION {TaskSettings(t) : t \in Range(tasks)}]] :
        \A t \in Range(tasks) : a.task_attrs[t] \in TaskSettings(t)}

\* The input width of the task modules, d_task_input of build_model.
ModuleInputWidth == 1024

\* build_task_modules on a new model: a model is built once.
BuildTaskModules ==
    /\ last_call = NoCall
    /\ \E tasks \in ModuleTaskLists :
      \E args \in ModuleArgs(tasks) :
        \E m \in {build_task_modules_in_order(args, tasks, ModuleInputWidth)} :
          /\ result' = [op |-> "build_task_modules", status |-> "ok",
                        use_bert |-> m.use_bert, pair_attn |-> m.pair_attn,
                        created |-> m.created, task_params |-> m.task_params,
                        modules |-> m.modules]
          /\ last_call' = [op |-> "build_task_modules", args |-> args, tasks |-> tasks]
          /\ UNCHANGED <<file, model>>

NextMod == BuildTaskModules

SpecMod == Init /\ [][NextMod]_vars

IsModBuild == result.op = "build_task_modules"

\* The value the configuration holds for a task: its own, else the global.
Configured(args, t, attr) ==
    IF args.task_attrs[t][attr] = {} THEN args[attr]
    ELSE CHOOSE v \in args.task_attrs[t][attr] : TRUE

\* C15: with shared pair attention enabled, every task's attention
\* parameters (on or off, hidden width) are the global ones, whatever the
\* task sets for itself, and so are the same for all tasks; otherwise they
\* are the task's own values, or the global ones where it sets none.
C15_AttentionParams ==
    IsModBuild =>
        LET args == last_call.args
            tps == result.task_params
        IN  /\ DOMAIN tps = Range(last_call.tasks)
            /\ \A t \in DOMAIN tps :
                  IF args.shared_pair_attn
                  THEN tps[t].attn = args.pair_attn /\ tps[t].d_hid_attn = args.d_hid_attn
                  ELSE /\ tps[t].attn = Configured(args, t, "pair_attn")
                       /\ tps[t].d_hid_attn = Configured(args, t, "d_hid_attn")
            /\ args.shared_pair_attn =>
                  \A t, u \in DOMAIN tps :
                      tps[t].attn = tps[u].attn /\ tps[t].d_hid_attn = tps[u].d_hid_attn

\* Sharing is enabled and a task's own settings, attention off and width
\* 256, were overridden by the global ones.
C15_Witness ==
    /\ IsModBuild /\ last_call.args.shared_pair_attn /\ last_call.args.pair_attn
    /\ \E t \in DOMAIN result.task_params :
          /\ last_call.args.task_attrs[t].pair_attn = {FALSE}
          /\ last_call.args.task_attrs[t].d_hid_attn = {256}
          /\ result.task_params[t].attn
          /\ result.task_params[t].d_hid_attn = 512

\* Sharing is disabled and a task's own settings were used.
C15_WitnessOwn ==
    /\ IsModBuild /\ ~last_call.args.shared_pair_attn /\ last_call.args.pair_attn
    /\ \E t \in DOMAIN result.task_params :
          /\ last_call.args.task_attrs[t].pair_attn = {FALSE}
          /\ last_call.args.task_attrs[t].d_hid_attn = {256}
          /\ ~result.task_params[t].attn
          /\ result.task_params[t].d_hid_attn = 256

\* The modules build_pair_sentence_module built on the path that encodes
\* the two sentences apart.
PairModules ==
    {result.modules[i] : i \in {j \in 1..Len(result.modules) :
                                   result.modules[j].class = "PairClassifier"}}

\* The width of a pooled sentence, by the task's resolved parameters.
PooledW(t) ==
    IF result.task_params[t].attn
    THEN 2 * result.task_params[t].d_hid_attn
    ELSE result.task_params[t].d_proj

IsWiC(t) == TaskKind(t) = "WiCTask"

\* C17: without joint encoding, the classifier of every pair task takes
\* 4 * W inputs, W the width of a pooled sentence (d_proj without attention,
\* 2 * d_hid_attn with it); for the word-in-context task, 4 * W and one
\* more W.
C17_ClassifierWidth ==
    (IsModBuild /\ ~result.use_bert) =>
        \A mod \in PairModules :
            /\ mod.pooled = PooledW(mod.task)
            /\ mod.d_classifier =
                  IF IsWiC(mod.task) THEN 4 * mod.pooled + mod.pooled ELSE 4 * mod.pooled

\* C17 (amended): without joint encoding, the classifier of every pair task
\* but the word-in-context task takes 4 * W inputs; for the word-in-context
\* task each sentence vector is the pooled one extended by a word vector of
\* the width d_inp of the module's input, and the classifier takes
\* 4 * (W + d_inp) inputs.
C17_ClassifierWidthWiC ==
    (IsModBuild /\ ~result.use_bert) =>
        \A mod \in PairModules :
            /\ mod.pooled = PooledW(mod.task)
            /\ mod.d_classifier =
                  IF IsWiC(mod.task)
                  THEN 4 * (mod.pooled + ModuleInputWidth)
                  ELSE 4 * mod.pooled

\* A word-in-context classifier over attention (W = 1024) and a plain pair
\* classifier (W = 512) were built.
C17_Witness ==
    /\ IsModBuild /\ ~result.use_bert
    /\ \E mod \in PairModules :
          IsWiC(mod.task) /\ mod.pooled = 1024 /\ mod.d_classifier = 8192
    /\ \E mod \in PairModules :
          ~IsWiC(mod.task) /\ mod.pooled = 512 /\ mod.d_classifier = 2048

\* The positions, in build order, of the modules of the pair tasks.
PairPositions == {i \in 1..Len(result.modules) : result.modules[i].class = "PairClassifier"}

\* The tasks that ask for the shared attention, and for one of their own.
Sharing(t) ==
    result.task_params[t].shared_pair_attn /\ result.task_params[t].attn /\ ~result.use_bert

NonShared(t) ==
    ~result.task_params[t].shared_pair_attn /\ result.task_params[t].attn /\ ~result.use_bert

SharingPositions == {i \in PairPositions : Sharing(result.modules[i].task)}

NonSharedPositions == {i \in PairPositions : NonShared(result.modules[i].task)}

\* C18: over the calls of build_pair_sentence_module on one model, in their
\* order, there is no shared attention before the first sharing task, that
\* task makes it, every later sharing task gets the same one, so that at
\* most one ever exists; every task with attention of its own gets a new
\* instance, neither the shared one nor another task's; a task without
\* attention gets none.
C18_OneSharedAttention ==
    IsModBuild =>
        LET mods == result.modules
        IN  /\ SharingPositions = {} => result.pair_attn = 0
            /\ \A i \in SharingPositions :
                  /\ mods[i].pair_attn # 0
                  /\ mods[i].pair_attn = result.pair_attn
                  /\ \A j \in PairPositions \ SharingPositions :
                        j < i => mods[j].pair_attn # mods[i].pair_attn
            /\ Cardinality({mods[i].pair_attn : i \in SharingPositions}) <= 1
            /\ \A i \in NonSharedPositions :
                  /\ mods[i].pair_attn # 0
                  /\ mods[i].pair_attn # result.pair_attn
                  /\ \A j \in PairPositions : j # i => mods[j].pair_attn # mods[i].pair_attn
            /\ \A i \in PairPositions \ (SharingPositions \cup NonSharedPositions) :
                  mods[i].pair_attn = 0
            /\ result.created = Cardinality(NonSharedPositions)
                                  + (IF SharingPositions = {} THEN 0 ELSE 1)

\* Two pair tasks share the one attention module the first of them made.
C18_Witness ==
    /\ IsModBuild /\ Cardinality(SharingPositions) >= 2
    /\ result.created = 1 /\ result.pair_attn = 1
    /\ \A i \in SharingPositions : result.modules[i].pair_attn = 1

\* Two pair tasks with attention of their own hold two attention modules.
C18_WitnessOwn ==
    /\ IsModBuild /\ Cardinality(NonSharedPositions) >= 2
    /\ result.created = 2 /\ result.pair_attn = 0

(***************************************************************************)
(* _tagger_forward on the rows of its tensors.                             *)
(*                                                                         *)
(* A tensor of shape [b, L, d] is a sequence of b sequences of L vectors;  *)
(* the vector of sequence i at position p is named <<i, p>>.               *)
(***************************************************************************)
MaxBatch == 2
MaxSeqLen == 4

\* The least raw length: the two boundary tokens.
MinSeqLen == 2

\* sent_encoder(batch["inputs"], task): one vector per position.
Contextualized(b_size, len) == [i \in 1..b_size |-> [p \in 1..len |-> <<i, p>>]]

\* sent[:, 1:-1, :], line 1003.
StripBoundaries(sent) ==
    [i \in 1..Len(sent) |-> SubSeq(sent[i], 2, Len(sent[i]) - 1)]

\* tensor.view(b * n, -1): the rows of the sequences, one sequence after
\* the other.
RECURSIVE Flatten(_)
Flatten(t) == IF t = <<>> THEN <<>> ELSE Head(t) \o Flatten(Tail(t))

\* index_select(0, keep_idxs), lines 1012-1016: the rows at the positions
\* where the flattened mask is set.
RECURSIVE IndexSelect(_, _)
IndexSelect(rows, keep) ==
    IF rows = <<>> THEN <<>>
    ELSE (IF Head(keep) THEN <<Head(rows)>> ELSE <<>>)
             \o IndexSelect(Tail(rows), Tail(keep))

\* Lines 996-1019 of _tagger_forward: the logits in the output record, and
\* the logits that enter the loss and the scorer.  mask[i][:seq_len] is
\* the mask of sequence i.  The mutation stores the logits in the record
\* after the mask was applied.
TaggerLogitsMasked(b_size, len, has_mask, mask) ==
    LET seq_len == len - 2
        sent == StripBoundaries(Contextualized(b_size, len))
        logits == Flatten(sent)
        batch_mask == [i \in 1..b_size |-> SubSeq(mask[i], 1, seq_len)]
        kept == IF has_mask THEN IndexSelect(logits, Flatten(batch_mask)) ELSE logits
    IN  [logits |-> kept, scored |-> kept]

TaggerLogits(b_size, len, has_mask, mask) ==
    LET seq_len == len - 2
        sent == StripBoundaries(Contextualized(b_size, len))
        logits == Flatten(sent)
        batch_mask == [i \in 1..b_size |-> SubSeq(mask[i], 1, seq_len)]
    IN  [logits |-> logits,
         scored |-> IF has_mask THEN IndexSelect(logits, Flatten(batch_mask)) ELSE logits]

\* The keep-masks of a batch: one flag per position and sequence.
Masks(b_size, len) == [1..b_size -> [1..len -> BOOLEAN]]

\* _tagger_forward on a labelled batch of b_size sequences of raw length
\* len, with or without batch["mask"].
TaggerForward ==
    /\ last_call = NoCall
    /\ \E b_size \in 1..MaxBatch, len \in MinSeqLen..MaxSeqLen, has_mask \in BOOLEAN :
         \E mask \in IF has_mask THEN Masks(b_size, len) ELSE {<<>>} :
           \E r \in {TaggerLogits(b_size, len, has_mask, mask)} :
             /\ result' = [op |-> "_tagger_forward", status |-> "ok",
                           logits |-> r.logits, scored |-> r.scored]
             /\ last_call' = [op |-> "_tagger_forward", b_size |-> b_size, len |-> len,
                              has_mask |-> has_mask, mask |-> mask]
             /\ UNCHANGED <<file, model>>

NextTag == TaggerForward

SpecTag == Init /\ [][NextTag]_vars

IsTagging == result.op = "_tagger_forward"

ModuleRoutines == ClassifierRoutines \cup {EdgeProbingForward, "_span_forward"}

\* C19: every routine that applies a classifier module, those of the
\* edge-probing and span tasks included, applies the module stored under
\* the alias target's name when the task's use_classifier names another
\* task that built its module.
C19_AllRoutinesAlias ==
    (IsForward /\ result.routine \in ModuleRoutines) =>
        LET t == last_call.task
            target == model.task_params[t]
        IN  (target # t /\ target \in model.mdl) => result.module = target

\* The routines whose metric update is written in MultiTaskModel: all but
\* those that hand the batch to the module of an edge-probing or span task.
MetricRoutines ==
    ClassifierRoutines \cup {"_lm_forward", "_lm_only_lr_forward", "_seq_gen_forward"}

\* How often the call updated a metric accumulator of the dispatched task.
TaskUpdates ==
    Cardinality({i \in 1..Len(result.updates) : result.updates[i][1] = last_call.task})

\* C20: a call that returns normally has updated the metric accumulator of
\* the dispatched task exactly once if the batch holds labels (or target
\* words), and not at all if it holds none.
C20_MetricOncePerLabelled ==
    (Returned /\ result.routine \in MetricRoutines) =>
        TaskUpdates = IF last_call.labelled THEN 1 ELSE 0

(***************************************************************************)
(* What a forward call changes.                                            *)
(***************************************************************************)
\* The accumulators the call updated that are not the dispatched task's.
ForeignUpdates ==
    {i \in 1..Len(result.updates) : result.updates[i][1] # last_call.task}

\* C21: a forward call for task T changes no state of the model but T's
\* own metric accumulator: every accumulator it updates is T's, under
\* every configuration.
C21_OnlyOwnMetrics == IsForward => ForeignUpdates = {}

\* C21 (amended): a forward call for task T updates no accumulator of
\* another task, the task whose classifier T borrows included; besides T's
\* own accumulator it updates the model's batch-utilization average, once
\* and before the routine runs, exactly when the model tracks utilization
\* and the batch holds the field input1 or input.  The modules and the
\* task parameters of the model are as build_model left them.
C21_OwnMetricsAndUtilization ==
    IsForward =>
        LET tracked == model.utilization
                         /\ ("input1" \in last_call.batch \/ "input" \in last_call.batch)
        IN  /\ \A i \in ForeignUpdates : result.updates[i] = <<"model", "utilization">>
            /\ ForeignUpdates = IF tracked THEN {1} ELSE {}
            /\ \A t \in model.tasks : t # last_call.task =>
                  \A i \in 1..Len(result.updates) : result.updates[i][1] # t
            /\ Built(model) \subseteq model.tasks
            /\ DOMAIN model.task_params = model.tasks

\* A diagnostic batch through the borrowed "mnli" classifier updated the
\* utilization average and the diagnostic task's metrics, not those of mnli.
C21_Witness ==
    /\ Returned /\ last_call.task = "mnli-diagnostic"
    /\ model.task_params["mnli-diagnostic"] = "mnli" /\ result.module = "mnli"
    /\ result.updates = <<<<"model", "utilization">>,
                          <<"mnli-diagnostic", "update_diagnostic_metrics">>>>

(***************************************************************************)
(* Tagging on a bidirectional-LM encoder.                                  *)
(***************************************************************************)
\* C22: a tagging task dispatched on a model whose contextualization layer
\* is the bidirectional-LM encoder fails with an error and returns no
\* output record; tagging returns normally only on the other layers.
C22_TaggingFailsOnBiLM ==
    (IsForward /\ result.routine = "_tagger_forward"
       /\ model.phrase_layer = "BiLMEncoder") =>
        (result.status # "ok" /\ result.out = {})

(***************************************************************************)
(* The task classes the builder and the dispatcher accept.                 *)
(***************************************************************************)
\* The task classes models.py imports, their common bases and the base
\* class of all tasks.
TaskClasses ==
    {"EdgeProbingTask", "LanguageModelingTask", "LanguageModelingParsingTask",
     "MTTask", "RedditSeq2SeqTask", "Wiki103Seq2SeqTask", "MultiRCTask",
     "GLUEDiagnosticTask", "MultipleChoiceTask", "PairClassificationTask",
     "PairOrdinalRegressionTask", "PairRegressionTask", "RegressionTask",
     "SequenceGenerationTask", "SingleClassificationTask",
     "SpanClassificationTask", "STSBTask", "TaggingTask", "WiCTask",
     "ClassificationTask", "RankingTask", "Task"}

\* The contextualization layers build_sent_encoder builds.
PhraseLayers ==
    {"BiLMEncoder", "ONLSTMStack", "PRPN", "lstm", "NullPhraseLayer", NoPhraseLayer}

\* The isinstance chain of forward, lines 797-829, for a task of class kind:
\* the routine chosen, or the error raised in choosing.
Dispatch(m, kind) ==
    LET lm == IsInstance(kind, {"LanguageModelingTask"})
              /\ ~IsInstance(kind, {"SingleClassificationTask", "GLUEDiagnosticTask",
                                    "PairClassificationTask", "PairRegressionTask",
                                    "PairOrdinalRegressionTask"})
        routine == Route(m, kind)
    IN  IF lm /\ m.phrase_layer = NoPhraseLayer
        THEN [status |-> ErrNoAttr, routine |-> ""]
        ELSE IF routine = "" THEN [status |-> ErrNoComponents, routine |-> ""]
        ELSE [status |-> "ok", routine |-> routine]

\* build_task_specific_modules and the dispatch of forward on one task class.
DispatchKind ==
    /\ last_call = NoCall
    /\ \E kind \in TaskClasses, layer \in PhraseLayers :
         \E mods \in {TaskModules(kind)}, d \in {Dispatch([phrase_layer |-> layer], kind)} :
           /\ result' = [op |-> "dispatch_kind",
                         status |-> IF mods = {} THEN ErrModuleNotFound ELSE "ok",
                         modules |-> mods, dispatch |-> d.status,
                         routine |-> d.routine]
           /\ last_call' = [op |-> "dispatch_kind", kind |-> kind, layer |-> layer]
    /\ UNCHANGED <<file, model>>

NextKind == DispatchKind

SpecKind == Init /\ [][NextKind]_vars

IsKind == last_call.op = "dispatch_kind"

\* C23: the builder and the dispatcher cover the same task classes:
\* build_task_specific_modules fails with "Module not found" exactly when
\* forward fails with "Task-specific components not found!".
C23_SameKinds ==
    IsKind => (result.status = ErrModuleNotFound <=> result.dispatch = ErrNoComponents)

\* A class both reject, and a class both accept through branches that name
\* different classes (Wiki103Seq2SeqTask in the builder, its base
\* SequenceGenerationTask in the dispatcher).
C23_Witness ==
    /\ IsKind /\ last_call.kind = "RegressionTask"
    /\ result.status = ErrModuleNotFound /\ result.dispatch = ErrNoComponents

C23_WitnessAccepted ==
    /\ IsKind /\ last_call.kind = "Wiki103Seq2SeqTask"
    /\ result.modules = {"decoder"} /\ result.routine = "_seq_gen_forward"

(***************************************************************************)
(* The skip of build_task_modules against the lookup of _get_classifier.   *)
(***************************************************************************)
\* C24: for every use_classifier setting of a task, build_task_modules
\* skips the task's modules if and only if _get_classifier resolves the
\* task to a module name that is not the task's own.
C24_SkipIffAliased ==
    model.built =>
        \A t \in model.tasks :
            (~BuildsOwn(model.task_params, t) /\ t \notin Built(model))
               <=> ClassifierName(model.task_params[t], t) # t

(***************************************************************************)
(* Builds that fail, in a run directory that outlives them.                *)
(***************************************************************************)
RunTaskNames == {"sst", "mnli", "unknown"}

RunTaskLists == {ts \in SUBSET RunTaskNames : ts # {} /\ Cardinality(ts) <= MaxTasks}

RunArgs(tasks) ==
    [word_embs : {"none", "scratch"}, pretrained_embs : {FALSE},
     d_pretrained : {300}, d_word : {300}, cove : {FALSE},
     char_embs : {FALSE}, d_char : {100},
     elmo : {FALSE}, elmo_chars_only : {FALSE},
     sep_embs_for_skip : BOOLEAN, do_pretrain : BOOLEAN,
     allow_missing_task_map : {FALSE},
     openai_transformer : {FALSE}, bert_model_name : {""},
     d_transformer : {768},
     sent_enc : {"rnn", "bow", "none"}, skip_embs : BOOLEAN, d_hid : {512},
     track_batch_utilization : {FALSE},
     use_classifier : {[t \in tasks |-> None]}]

\* One run of build_model on the run directory; the next run finds the
\* classifier map file as this one left it.
RunBuildModel ==
    \E tasks \in RunTaskLists :
      \E args \in RunArgs(tasks) :
        \E r \in {build_model(args, tasks, file)} :
          /\ file' = r.file
          /\ model' = r.model
          /\ result' = [op |-> "build_model", status |-> r.status,
                        d_task_input |-> r.d_task_input, before |-> file]
          /\ last_call' = [op |-> "build_model"]

NextRun == RunBuildModel

SpecRun == Init /\ [][NextRun]_vars

\* C25: a build_model call that fails with a build-time error leaves the
\* classifier map file as it was before the call, neither created nor
\* modified.
C25_FailedBuildKeepsFile ==
    (result.op = "build_model" /\ result.status # "ok") => file = result.before

(***************************************************************************)
(* Language modeling on the encoder built for it.                          *)
(***************************************************************************)
IsLMCall ==
    IsForward /\ IsInstance(TaskKind(last_call.task), {"LanguageModelingTask"})

\* C26: on a model whose sentence encoder was built with a language-
\* modeling task in the task list, dispatching that task never trips the
\* assertion "Not using LM for language modeling task!": the task goes to
\* the left-to-right routine when the contextualization layer is the
\* ON-LSTM or the PRPN, and otherwise the layer is the BiLMEncoder that
\* _lm_forward requires.
C26_LMAssertionNeverTrips ==
    IsLMCall =>
        /\ result.status # ErrNotLM
        /\ model.phrase_layer \in {"ONLSTMStack", "PRPN", "BiLMEncoder"}
        /\ result.routine = "_lm_only_lr_forward"
              <=> model.phrase_layer \in {"ONLSTMStack", "PRPN"}
        /\ result.routine = "_lm_forward" <=> model.phrase_layer = "BiLMEncoder"

\* A language-modeling batch passed the assertion of _lm_forward on a
\* BiLMEncoder, and one took the left-to-right routine on an ON-LSTM.
C26_Witness ==
    /\ IsLMCall /\ Returned /\ result.routine = "_lm_forward"
    /\ model.phrase_layer = "BiLMEncoder"

C26_WitnessOrdered ==
    /\ IsLMCall /\ Returned /\ result.routine = "_lm_only_lr_forward"
    /\ model.phrase_layer = "ONLSTMStack"

====
